---------------------------- MODULE Spec2Model ----------------------------
(***************************************************************************)
(* Model of TransferService (src/services/transferService.js): the         *)
(* single-file ownership transfer (getFileDetails, getFilePermissions,     *)
(* addPermission, promoteToOwner) and the batch loop around it, running    *)
(* against a Drive whose files and permission lists are the environment.   *)
(* Every await of a Drive call is one step; the synchronous code up to the *)
(* next await belongs to the same step.                                    *)
(***************************************************************************)
EXTENDS Naturals, Sequences, FiniteSets

\* ------------------------------------------------------------------ bounds
MaxBatchLen == 2      \* longest fileIds sequence handed to the batch
MaxExternal == 1      \* changes other Drive users make during a run

\* ------------------------------------------------------------- value sets
FileIds == {"F1", "F2"}

\* e-mail addresses are sequences of characters
OwnerEmail  == <<"a", "@", "x", ".", "c">>
TargetEmail == <<"b", "@", "x", ".", "c">>
NotAnEmail  == <<"n", "o", "t">>

NewOwnerEmails == {TargetEmail, NotAnEmail}

Options == [transferOwnership : BOOLEAN, continueOnError : BOOLEAN]

\* continueOnError is read by the batch loop alone; a direct call leaves it
\* at its default
SingleOptions == {o \in Options : o.continueOnError}

\* a Permission resource of the Drive API
Perm(id, role, email) == [id |-> id, role |-> role, emailAddress |-> email]

\* the files a run may start from: one missing file, and permission lists
\* with no entry, a non-owner entry, an owner entry, and two entries for
\* the target account
MissingFile == [exists |-> FALSE, permissions |-> <<>>]

InitialFiles ==
    { MissingFile,
      [exists |-> TRUE, permissions |-> <<Perm(1, "owner", OwnerEmail)>>],
      [exists |-> TRUE, permissions |-> <<Perm(1, "owner", OwnerEmail),
                                          Perm(2, "reader", TargetEmail)>>],
      [exists |-> TRUE, permissions |-> <<Perm(1, "writer", OwnerEmail),
                                          Perm(2, "owner", TargetEmail)>>],
      [exists |-> TRUE, permissions |-> <<Perm(1, "writer", TargetEmail),
                                          Perm(2, "owner", TargetEmail)>>] }

\* --------------------------------------------------------------- variables
VARIABLES
    drive,        \* Drive: fileId -> [exists, permissions]
    external,     \* number of changes made by other Drive users so far
    pc,           \* the await the service is suspended at, or "idle"
    mode,         \* "single": transferFileOwnership called directly; "batch"
    fileId,       \* argument / loop variable fileId
    newOwnerEmail,\* argument newOwnerEmail
    options,      \* argument options
    fileDetails,  \* local of transferFileOwnership
    existingPermission, \* local of transferFileOwnership
    userPermission,     \* local of promoteToOwner
    calls,        \* Drive calls issued since the top-level call began
    outcome,      \* how the last transferFileOwnership ended
    fileIds,      \* argument of batchTransferOwnership
    i,            \* loop index of batchTransferOwnership (1-based)
    results,      \* local results of batchTransferOwnership
    delays,       \* loop positions after which delay() was awaited
    batchReturn,  \* value returned by the last batchTransferOwnership
    previous,     \* the direct call completed before the current one
    repeated,     \* the current direct call repeats a successful one, with
                  \* the file untouched in between
    interference, \* another Drive user changed a file since the call began
    validation,   \* value returned by the last validateTransferPreconditions
    tokenStore,   \* the token files: account -> saved token record
    clients,      \* the OAuth2 client objects: handle -> credentials set
    auth,         \* authenticateAccounts: its position, locals and result
    app           \* handleSingleFileTransfer: its position, locals and end

\* what belongs to the precondition check and to authentication
appVars == <<validation, tokenStore, clients, auth, app>>

vars == <<drive, external, pc, mode, fileId, newOwnerEmail, options,
          fileDetails, existingPermission, userPermission, calls, outcome,
          fileIds, i, results, delays, batchReturn, previous, repeated,
          interference, validation, tokenStore, clients, auth, app>>

\* ------------------------------------------------- accounts and tokens
Accounts == {OwnerEmail, TargetEmail}

\* a token record: the account it was issued to and whether Drive accepts it
Tokens(account, live) == [account |-> account, live |-> live]

NoTokens == Tokens(<<>>, FALSE)           \* no token file / no credentials

\* what a token file may hold when a run starts
SavedTokens(account) ==
    {NoTokens, Tokens(account, TRUE), Tokens(account, FALSE)}

NoValidation ==
    [returned |-> FALSE, valid |-> FALSE, currentOwner |-> <<>>,
     fileName |-> <<>>, error |-> <<>>]

NoHandle == 0

\* authenticateAccounts before it is called: pc is the await it stands at,
\* phase the account being authenticated, googleAuth the handle of
\* this.oauth2Client, loaded / tested / interactive what the authenticate
\* under way has done, before the token file it found, flows the
\* authenticate calls that have ended
NoAuth ==
    [pc |-> "idle", phase |-> "none", sourceEmail |-> <<>>,
     targetEmail |-> <<>>, userEmail |-> <<>>, googleAuth |-> NoHandle,
     tokens |-> NoTokens, before |-> NoTokens, sourceAuth |-> NoHandle,
     targetAuth |-> NoHandle, result |-> "none", flows |-> <<>>,
     loaded |-> FALSE, tested |-> FALSE, interactive |-> FALSE]

\* handleSingleFileTransfer before it is called: pc is the await it stands
\* at, stages the steps of the flow it has entered, in order, ended how the
\* last flow came back
NoApp ==
    [pc |-> "idle", sourceEmail |-> <<>>, targetEmail |-> <<>>,
     fileId |-> <<>>, typed |-> <<>>, errors |-> <<>>, stages |-> <<>>,
     ended |-> "none", error |-> <<>>]


\* ----------------------------------------------------------- pure helpers
NoPermission == Perm(0, "none", <<>>)     \* what Array.find yields on no match
NoMessage    == <<>>                      \* an absent message / e-mail field

\* /^[^\s@]+@[^\s@]+\.[^\s@]+$/ : a character that is neither blank nor "@"
PlainChar(c) == c # " " /\ c # "@"

AllPlain(s, from, to) == \A k \in from..to : PlainChar(s[k])

\* mutant: any text with an "@" in it passes
isValidEmail_AtOnly(email) == \E at \in 1..Len(email) : email[at] = "@"

isValidEmail(email) ==
    \E at \in 1..Len(email) : \E dot \in 1..Len(email) :
        /\ email[at] = "@"
        /\ email[dot] = "."
        /\ 1 < at /\ at + 1 < dot /\ dot < Len(email)
        /\ AllPlain(email, 1, at - 1)
        /\ AllPlain(email, at + 1, dot - 1)
        /\ AllPlain(email, dot + 1, Len(email))

\* permissions.find(perm => perm.emailAddress === email): the FIRST match
FirstMatchIndex(permissions, email) ==
    IF \E k \in 1..Len(permissions) : permissions[k].emailAddress = email
    THEN CHOOSE k \in 1..Len(permissions) :
            /\ permissions[k].emailAddress = email
            /\ \A j \in 1..(k - 1) : permissions[j].emailAddress # email
    ELSE 0

FindPermission(permissions, email) ==
    IF FirstMatchIndex(permissions, email) = 0
    THEN NoPermission
    ELSE permissions[FirstMatchIndex(permissions, email)]

\* mutant: the short-circuit tests for the wrong role
IsAlreadyOwner_WriterRole(permission) ==
    permission # NoPermission /\ permission.role = "writer"

\* existingPermission && existingPermission.role === 'owner'
IsAlreadyOwner(permission) ==
    permission # NoPermission /\ permission.role = "owner"

\* mutant: the negation is dropped, if (existingPermission)
NeedsWriterPermission_Inverted(permission) == permission # NoPermission

\* mutant: the writer permission is created whatever the lookup found
NeedsWriterPermission_Always(permission) == TRUE

\* !existingPermission
NeedsWriterPermission(permission) == permission = NoPermission

\* mutant: the new message replaces the cause instead of wrapping it
Wrap_DropsCause(prefix, message) == <<prefix>>

\* new Error(`${prefix}: ${error.message}`): the cause is kept, a prefix added
Wrap(prefix, message) == <<prefix>> \o message

\* ------------------------------------------------------- the Drive service
FileName(f) == <<"name of", f>>

MaxId(permissions) ==
    IF permissions = <<>> THEN 0
    ELSE CHOOSE m \in {permissions[k].id : k \in 1..Len(permissions)} :
            \A k \in 1..Len(permissions) : permissions[k].id <= m

HasPermissionId(d, f, id) ==
    \E k \in 1..Len(d[f].permissions) : d[f].permissions[k].id = id

\* the cause message Drive answers a failed call with
DriveError(d, f, answered) ==
    IF ~answered THEN <<"Drive unavailable">>
    ELSE IF ~d[f].exists THEN <<"File not found">>
    ELSE <<"Permission not found">>

\* drive.files.get / drive.permissions.list succeed on a file that exists
LookupSucceeds(d, f, answered) == answered /\ d[f].exists

\* mutant: the permission is created with read access only
PermissionsCreate_Reader(d, f, email, role) ==
    [d EXCEPT ![f].permissions =
        Append(@, [id |-> Len(@) + 1, role |-> "reader", emailAddress |-> email])]

\* drive.permissions.create: a new Permission is appended to the file's list
PermissionsCreate(d, f, email, role) ==
    [d EXCEPT ![f].permissions =
        Append(@, Perm(MaxId(@) + 1, role, email))]

\* drive.permissions.update(role: 'owner', transferOwnership: true): the
\* permission becomes owner and the former owner keeps write access
PermissionsUpdateOwner(d, f, id) ==
    [d EXCEPT ![f].permissions =
        [k \in 1..Len(@) |->
            IF @[k].id = id THEN [@[k] EXCEPT !.role = "owner"]
            ELSE IF @[k].role = "owner" THEN [@[k] EXCEPT !.role = "writer"]
            ELSE @[k]]]

UpdateSucceeds(d, f, id, answered) ==
    answered /\ d[f].exists /\ HasPermissionId(d, f, id)

\* one entry of the call log: the operation, the role it asks for, whether
\* it succeeded, the permission list it returned, the loop position it was
\* issued at (0 outside a batch)
Call(op, role, ok, listed) ==
    [op |-> op, fileId |-> fileId, role |-> role, ok |-> ok,
     listed |-> IF ok THEN listed ELSE <<>>,
     index |-> IF mode = "batch" THEN i ELSE 0]

\* ------------------------------------------------------- returned values
AlreadyOwnerResult ==
    [success |-> TRUE, message |-> "Already owner", fileId |-> fileId,
     fileName |-> fileDetails.name, newOwner |-> NoMessage, error |-> NoMessage]

TransferredResult ==
    [success |-> TRUE, message |-> "Ownership transferred successfully",
     fileId |-> fileId, fileName |-> fileDetails.name,
     newOwner |-> newOwnerEmail, error |-> NoMessage]

\* the errorResult of the batch loop's catch
ErrorResult(message) ==
    [success |-> FALSE, message |-> "", fileId |-> fileId,
     fileName |-> NoMessage, newOwner |-> NoMessage, error |-> message]

Returned(value) == [thrown |-> FALSE, value |-> value, error |-> NoMessage]

\* mutant: the catch returns a failed result instead of throwing
Thrown_Swallowed(message) ==
    [thrown |-> FALSE, value |-> ErrorResult(message), error |-> NoMessage]

\* the catch of transferFileOwnership rethrows with the cause wrapped
Thrown(message) ==
    [thrown |-> TRUE, value |-> ErrorResult(NoMessage),
     error |-> Wrap("Transfer failed", message)]

NoOutcome == [thrown |-> FALSE, value |-> ErrorResult(NoMessage), error |-> <<"none">>]

CountWhere(rs, wanted) ==
    Cardinality({k \in 1..Len(rs) : rs[k].success = wanted})

\* mutant: what was not processed is counted as failed
Summary_UnprocessedFailed(rs, ids) ==
    [successful |-> CountWhere(rs, TRUE),
     failed     |-> Len(ids) - CountWhere(rs, TRUE),
     total      |-> Len(ids)]

\* results.filter(r => r.success).length, results.filter(r => !r.success).length
Summary(rs, ids) ==
    [successful |-> CountWhere(rs, TRUE),
     failed     |-> CountWhere(rs, FALSE),
     total      |-> Len(ids)]

NoBatchReturn == [results |-> <<>>, summary |-> [successful |-> 0, failed |-> 0, total |-> 0],
                  returned |-> FALSE]


NoDetails  == [id |-> "", name |-> NoMessage]
NoPrevious == [fileId |-> "", newOwnerEmail |-> NoMessage,
               options |-> [transferOwnership |-> TRUE, continueOnError |-> TRUE],
               success |-> FALSE]

\* ------------------------------------------------------------------- Init
InitWith(files) ==
    /\ drive \in [FileIds -> files]
    /\ external = 0
    /\ pc = "idle"
    /\ mode = "single"
    /\ fileId = "F1"
    /\ newOwnerEmail = TargetEmail
    /\ options = [transferOwnership |-> TRUE, continueOnError |-> TRUE]
    /\ fileDetails = NoDetails
    /\ existingPermission = NoPermission
    /\ userPermission = NoPermission
    /\ calls = <<>>
    /\ outcome = NoOutcome
    /\ fileIds = <<>>
    /\ i = 0
    /\ results = <<>>
    /\ delays = <<>>
    /\ batchReturn = NoBatchReturn
    /\ previous = NoPrevious
    /\ repeated = FALSE
    /\ interference = FALSE
    /\ validation = NoValidation
    /\ tokenStore = [a \in Accounts |-> NoTokens]
    /\ clients = <<>>
    /\ auth = NoAuth
    /\ app = NoApp

Init == InitWith(InitialFiles)

\* ------------------------------------------- the batch loop around a file
\* mutant: the loop walks the input from its end
FileAt_Reversed(ids, index) == ids[Len(ids) + 1 - index]

\* const fileId = fileIds[i]
FileAt(ids, index) == ids[index]

\* mutant: the test is inverted, if (continueOnError) break
HaltsOnError_Inverted(opts) == opts.continueOnError

\* mutant: the break is missing
HaltsOnError_Never(opts) == FALSE

\* if (!continueOnError) break
HaltsOnError(opts) == ~opts.continueOnError

\* mutant: the loop never pauses
DelayDue_Never(index, ids) == FALSE

\* if (i < fileIds.length - 1) await this.delay(...)   (i is 0-based there)
DelayDue(index, ids) == index < Len(ids)

\* the loop's i++ and test, or the summary and return after the loop
NextIteration(rs, stop) ==
    /\ results' = rs
    /\ IF stop \/ i >= Len(fileIds)
       THEN /\ pc' = "idle"
            /\ batchReturn' = [results |-> rs, summary |-> Summary(rs, fileIds),
                               returned |-> TRUE]
            /\ UNCHANGED <<i, fileId>>
       ELSE /\ pc' = "getFileDetails"
            /\ i' = i + 1
            /\ fileId' = FileAt(fileIds, i + 1)
            /\ UNCHANGED batchReturn

\* mutant: no catch around the call, a failed transfer ends the batch with
\* nothing returned
BatchAfterTransfer_NoCatch(out) ==
    /\ UNCHANGED <<previous, delays>>
    /\ IF ~out.thrown
       THEN IF i < Len(fileIds)
            THEN /\ results' = Append(results, out.value)
                 /\ pc' = "delay"
                 /\ UNCHANGED <<i, fileId, batchReturn>>
            ELSE /\ results' = Append(results, out.value)
                 /\ pc' = "idle"
                 /\ batchReturn' = [results |-> results',
                                    summary |-> [successful |-> Len(results'),
                                                 failed |-> 0,
                                                 total |-> Len(fileIds)],
                                    returned |-> TRUE]
                 /\ UNCHANGED <<i, fileId>>
       ELSE /\ pc' = "idle"
            /\ UNCHANGED <<results, i, fileId, batchReturn>>

\* lines 86-92 (the call returned) and 94-109 (it threw)
BatchAfterTransfer(out) ==
    /\ UNCHANGED <<previous, delays>>
    /\ IF ~out.thrown
       THEN IF DelayDue(i, fileIds)
            THEN /\ results' = Append(results, out.value)
                 /\ pc' = "delay"
                 /\ UNCHANGED <<i, fileId, batchReturn>>
            ELSE NextIteration(Append(results, out.value), FALSE)
       ELSE NextIteration(Append(results, ErrorResult(out.error)),
                          HaltsOnError(options))

\* transferFileOwnership returns or throws to its caller
Complete(out) ==
    /\ outcome' = out
    /\ fileDetails' = NoDetails
    /\ existingPermission' = NoPermission
    /\ userPermission' = NoPermission
    /\ IF mode = "single"
       THEN /\ pc' = "idle"
            /\ previous' = [fileId |-> fileId, newOwnerEmail |-> newOwnerEmail,
                            options |-> options, success |-> ~out.thrown]
            /\ UNCHANGED <<fileId, i, results, delays, batchReturn>>
       ELSE BatchAfterTransfer(out)

\* transferFileOwnership goes on to its next await
Continue(next, details, existing, user) ==
    /\ pc' = next
    /\ fileDetails' = details
    /\ existingPermission' = existing
    /\ userPermission' = user
    /\ UNCHANGED <<outcome, fileId, i, results, delays, batchReturn, previous>>

\* ------------------------------------------------------- top-level calls
CallTransfer(f, email, opts) ==
    /\ pc = "idle"
    /\ pc' = "getFileDetails"
    /\ mode' = "single"
    /\ fileId' = f
    /\ newOwnerEmail' = email
    /\ options' = opts
    /\ calls' = <<>>
    /\ outcome' = NoOutcome
    /\ repeated' = (previous = [fileId |-> f, newOwnerEmail |-> email,
                                options |-> opts, success |-> TRUE])
    /\ interference' = FALSE
    /\ UNCHANGED <<drive, external, fileDetails, existingPermission,
                   userPermission, fileIds, i, results, delays, batchReturn,
                   previous, appVars>>

BatchInputs == UNION {[1..n -> FileIds] : n \in 0..MaxBatchLen}

CallBatch(ids, email, opts) ==
    /\ pc = "idle"
    /\ ~batchReturn.returned
    /\ mode' = "batch"
    /\ fileIds' = ids
    /\ newOwnerEmail' = email
    /\ options' = opts
    /\ calls' = <<>>
    /\ delays' = <<>>
    /\ outcome' = NoOutcome
    /\ previous' = NoPrevious
    /\ repeated' = FALSE
    /\ interference' = FALSE
    /\ results' = <<>>
    /\ IF Len(ids) = 0
       THEN /\ pc' = "idle"
            /\ batchReturn' = [results |-> <<>>, summary |-> Summary(<<>>, ids),
                               returned |-> TRUE]
            /\ UNCHANGED <<i, fileId>>
       ELSE /\ pc' = "getFileDetails"
            /\ i' = 1
            /\ fileId' = FileAt(ids, 1)
            /\ batchReturn' = NoBatchReturn
    /\ UNCHANGED <<drive, external, fileDetails, existingPermission,
                   userPermission, appVars>>


\* ------------------------------------------- steps of transferFileOwnership
\* what stays as it is in every step of a transfer
TransferFrame == UNCHANGED <<external, mode, newOwnerEmail, options, fileIds,
                             repeated, interference, appVars>>

\* Step 1, line 27: await this.getFileDetails(fileId)
GetFileDetails ==
    /\ pc = "getFileDetails"
    /\ \E answered \in BOOLEAN :
        LET ok == LookupSucceeds(drive, fileId, answered) IN
        /\ calls' = Append(calls, Call("files.get", "", ok, <<>>))
        /\ IF ok
           THEN Continue("getFilePermissions",
                         [id |-> fileId, name |-> FileName(fileId)],
                         existingPermission, userPermission)
           ELSE Complete(Thrown(Wrap("Failed to get file details",
                                     DriveError(drive, fileId, answered))))
    /\ UNCHANGED drive
    /\ TransferFrame

\* where lines 43-52 lead once existingPermission is known not to be owner
AfterLookup(existing) ==
    IF NeedsWriterPermission(existing) THEN "addPermission"
    ELSE IF options.transferOwnership THEN "promoteToOwner"
    ELSE "return"

\* Step 2, lines 31-46: await this.getFilePermissions(fileId), find, branch
GetFilePermissions ==
    /\ pc = "getFilePermissions"
    /\ \E answered \in BOOLEAN :
        LET ok == LookupSucceeds(drive, fileId, answered)
            existing == FindPermission(drive[fileId].permissions, newOwnerEmail)
        IN
        /\ calls' = Append(calls, Call("permissions.list", "", ok, drive[fileId].permissions))
        /\ IF ~ok
           THEN Complete(Thrown(Wrap("Failed to get permissions",
                                     DriveError(drive, fileId, answered))))
           ELSE IF IsAlreadyOwner(existing)
           THEN Complete(Returned(AlreadyOwnerResult))
           ELSE IF AfterLookup(existing) = "return"
           THEN Complete(Returned(TransferredResult))
           ELSE Continue(AfterLookup(existing), fileDetails, existing,
                         userPermission)
    /\ UNCHANGED drive
    /\ TransferFrame

\* Step 3, line 44: await this.addPermission(fileId, newOwnerEmail, 'writer')
AddPermission ==
    /\ pc = "addPermission"
    /\ \E answered \in BOOLEAN :
        LET ok == LookupSucceeds(drive, fileId, answered) IN
        /\ calls' = Append(calls, Call("permissions.create", "writer", ok, <<>>))
        /\ IF ~ok
           THEN /\ UNCHANGED drive
                /\ Complete(Thrown(Wrap("Failed to add permission",
                                        DriveError(drive, fileId, answered))))
           ELSE /\ drive' = PermissionsCreate(drive, fileId, newOwnerEmail, "writer")
                /\ IF options.transferOwnership
                   THEN Continue("promoteToOwner", fileDetails,
                                 existingPermission, userPermission)
                   ELSE Complete(Returned(TransferredResult))
    /\ TransferFrame

\* mutant: the test for a missing permission is left out
PermissionMissing_Never(permission) == FALSE

\* if (!userPermission)
PermissionMissing(permission) == permission = NoPermission

\* Step 4, lines 157-162: promoteToOwner lists the permissions again
PromoteList ==
    /\ pc = "promoteToOwner"
    /\ \E answered \in BOOLEAN :
        LET ok == LookupSucceeds(drive, fileId, answered)
            user == FindPermission(drive[fileId].permissions, newOwnerEmail)
        IN
        /\ calls' = Append(calls, Call("permissions.list", "", ok, drive[fileId].permissions))
        /\ IF ~ok
           THEN Complete(Thrown(Wrap("Failed to promote to owner",
                                     Wrap("Failed to get permissions",
                                          DriveError(drive, fileId, answered)))))
           ELSE IF PermissionMissing(user)
           THEN Complete(Thrown(Wrap("Failed to promote to owner",
                                     <<"User does not have permission to this file">>)))
           ELSE Continue("permissionsUpdate", fileDetails, existingPermission,
                         user)
    /\ UNCHANGED drive
    /\ TransferFrame

\* Step 4, lines 165-173 and 51-60: permissions.update to owner, then return
PromoteUpdate ==
    /\ pc = "permissionsUpdate"
    /\ \E answered \in BOOLEAN :
        LET ok == UpdateSucceeds(drive, fileId, userPermission.id, answered) IN
        /\ calls' = Append(calls, Call("permissions.update", "owner", ok, <<>>))
        /\ IF ~ok
           THEN /\ UNCHANGED drive
                /\ Complete(Thrown(Wrap("Failed to promote to owner",
                                        DriveError(drive, fileId, answered))))
           ELSE /\ drive' = PermissionsUpdateOwner(drive, fileId, userPermission.id)
                /\ Complete(Returned(TransferredResult))
    /\ TransferFrame

\* line 91: await this.delay(delayBetweenTransfers), then the loop's i++
Delay ==
    /\ pc = "delay"
    /\ delays' = Append(delays, i)
    /\ pc' = "getFileDetails"
    /\ i' = i + 1
    /\ fileId' = FileAt(fileIds, i + 1)
    /\ UNCHANGED <<drive, external, mode, newOwnerEmail, options, fileDetails,
                   existingPermission, userPermission, calls, outcome, fileIds,
                   results, batchReturn, previous, repeated, interference,
                   appVars>>

\* --------------------------------------------------------- the environment
\* no permission list of the model grows beyond the two initial entries and
\* the one a transfer creates
MaxPermissions == 3

RemoveAt(s, k) == [j \in 1..(Len(s) - 1) |-> IF j < k THEN s[j] ELSE s[j + 1]]

\* another Drive user revokes a non-owner permission of a file
ExternalRevoke(f, k) ==
    /\ external < MaxExternal
    /\ drive[f].exists
    /\ k \in 1..Len(drive[f].permissions)
    /\ drive[f].permissions[k].role # "owner"
    /\ drive' = [drive EXCEPT ![f].permissions = RemoveAt(@, k)]
    /\ external' = external + 1
    /\ previous' = NoPrevious
    /\ repeated' = FALSE
    /\ interference' = TRUE
    /\ UNCHANGED <<pc, mode, fileId, newOwnerEmail, options, fileDetails,
                   existingPermission, userPermission, calls, outcome, fileIds,
                   i, results, delays, batchReturn, appVars>>

\* -------------------------------------------------------- specifications
TransferStep ==
    \/ GetFileDetails
    \/ GetFilePermissions
    \/ AddPermission
    \/ PromoteList
    \/ PromoteUpdate

\* direct calls of transferFileOwnership, one after the other, on a Drive
\* that other users may change
NextSingle ==
    \/ \E f \in FileIds, email \in NewOwnerEmails, opts \in SingleOptions :
          CallTransfer(f, email, opts)
    \/ TransferStep
    \/ \E f \in FileIds, k \in 1..MaxPermissions : ExternalRevoke(f, k)

\* the second file is one Drive does not have
InitSingle == Init /\ drive["F2"] = MissingFile

SpecSingle == InitSingle /\ [][NextSingle]_vars

\* one call of batchTransferOwnership
NextBatch ==
    \/ \E ids \in BatchInputs, email \in NewOwnerEmails, opts \in Options :
          CallBatch(ids, email, opts)
    \/ TransferStep
    \/ Delay

SpecBatch == Init /\ [][NextBatch]_vars

\* every Drive call and every delay of a batch under way comes back: the
\* awaited promise settles and the loop goes on
LiveBatch == SpecBatch /\ WF_vars(TransferStep \/ Delay)

\* ------------------------------------ validateTransferPreconditions
\* a shared-drive item: Drive reports no owners for it
OwnerlessFile ==
    [exists |-> TRUE, permissions |-> <<Perm(1, "organizer", OwnerEmail)>>]

\* the owners field of the file resource: the users holding the owner role
Owners(file) == SelectSeq(file.permissions, LAMBDA p : p.role = "owner")

\* texts offered as the new owner's address
ValidateEmails ==
    { TargetEmail,
      NotAnEmail,
      <<"b", "@", "x">>,
      <<"@", "x", ".", "c">>,
      <<"b", "@", "x", ".">>,
      <<"b", " ", "@", "x", ".", "c">>,
      <<"b", "@", "@", "x", ".", "c">>,
      <<"b", "@", "x", ".", "y", ".", "c">> }

Invalid(message) ==
    [returned |-> TRUE, valid |-> FALSE, currentOwner |-> <<>>,
     fileName |-> <<>>, error |-> message]

Valid(owner, name) ==
    [returned |-> TRUE, valid |-> TRUE, currentOwner |-> owner,
     fileName |-> name, error |-> <<>>]

\* validateTransferPreconditions(fileId, newOwnerEmail) is called
CallValidate(f, email) ==
    /\ pc = "idle"
    /\ pc' = "validate"
    /\ mode' = "validate"
    /\ fileId' = f
    /\ newOwnerEmail' = email
    /\ calls' = <<>>
    /\ validation' = NoValidation
    /\ UNCHANGED <<drive, external, options, fileDetails, existingPermission,
                   userPermission, outcome, fileIds, i, results, delays,
                   batchReturn, previous, repeated, interference, tokenStore,
                   clients, auth, app>>

\* the awaited getFileDetails comes back and the rest of the body runs: the
\* owner test, then the e-mail test; every throw lands in the catch, which
\* returns the message
ValidatePreconditions ==
    /\ pc = "validate"
    /\ \E answered \in BOOLEAN :
        LET ok == LookupSucceeds(drive, fileId, answered)
            owners == Owners(drive[fileId])
        IN
        /\ calls' = Append(calls, Call("files.get", "", ok, <<>>))
        /\ validation' =
              IF ~ok
              THEN Invalid(Wrap("Failed to get file details",
                                DriveError(drive, fileId, answered)))
              ELSE IF owners = <<>>
              THEN Invalid(<<"Could not determine current file owner">>)
              ELSE IF ~isValidEmail(newOwnerEmail)
              THEN Invalid(<<"Invalid new owner email address">>)
              ELSE Valid(owners[1].emailAddress, FileName(fileId))
    /\ pc' = "idle"
    /\ UNCHANGED <<drive, external, mode, fileId, newOwnerEmail, options,
                   fileDetails, existingPermission, userPermission, outcome,
                   fileIds, i, results, delays, batchReturn, previous,
                   repeated, interference, tokenStore, clients, auth, app>>

NextValidate ==
    \/ \E f \in FileIds, email \in ValidateEmails : CallValidate(f, email)
    \/ ValidatePreconditions

InitValidate == InitWith(InitialFiles \cup {OwnerlessFile})

SpecValidate == InitValidate /\ [][NextValidate]_vars

\* ------------------------------------------------------ authentication
\* what the transfer service, the precondition check and the menu flow own
coreVars == <<drive, external, pc, mode, fileId, newOwnerEmail, options,
              fileDetails, existingPermission, userPermission, calls,
              outcome, fileIds, i, results, delays, batchReturn, previous,
              repeated, interference, validation>>

serviceVars == <<coreVars, app>>

\* oauth2Client.setCredentials(tokens) on the client behind a handle
SetCredentials(cs, handle, tokens) == [cs EXCEPT ![handle] = tokens]

\* mutant: saveTokens reports success and leaves the token file as it was
StoreAfterSave_NoWrite(store, email, tokens) == store

\* fs.writeFile(tokenPath, JSON.stringify(tokens)) on the file of the account
StoreAfterSave(store, email, tokens) == [store EXCEPT ![email] = tokens]

\* fs.readFile + JSON.parse give the record when the file is there and read
LoadSucceeds(store, email, answered) == answered /\ store[email] # NoTokens

\* drive.about.get is answered with the user when Drive accepts the tokens
TokensAccepted(cs, handle, answered) == answered /\ cs[handle].live

\* one authenticate call has ended, by returning this.oauth2Client or by
\* throwing; authenticateAccounts goes on with the target account, returns
\* {sourceAuth, targetAuth}, or lets the error through
AuthenticateEnds(a, returned, store) ==
    LET flow == [userEmail |-> a.userEmail, before |-> a.before,
                 loaded |-> a.loaded, tested |-> a.tested,
                 interactive |-> a.interactive, returned |-> returned,
                 client |-> IF returned THEN a.googleAuth ELSE NoHandle,
                 stored |-> store[a.userEmail]]
        ended == [a EXCEPT !.flows = Append(a.flows, flow)]
    IN
    IF ~returned
    THEN [ended EXCEPT !.pc = "idle", !.result = "thrown"]
    ELSE IF a.phase = "source"
    THEN [ended EXCEPT !.sourceAuth = a.googleAuth,
                       !.phase = "target",
                       !.userEmail = a.targetEmail,
                       !.before = store[a.targetEmail],
                       !.tokens = NoTokens,
                       !.loaded = FALSE, !.tested = FALSE,
                       !.interactive = FALSE,
                       !.pc = "loadTokens"]
    ELSE [ended EXCEPT !.targetAuth = a.googleAuth,
                       !.pc = "idle", !.result = "returned"]

\* authenticateAccounts(sourceEmail, targetEmail) is called: one GoogleAuth
\* is constructed, with one OAuth2 client, and authenticate(sourceEmail)
\* runs up to its first await
BeginAuthenticateAccounts(source, target) ==
    /\ clients' = <<NoTokens>>
    /\ auth' = [NoAuth EXCEPT !.pc = "loadTokens", !.phase = "source",
                              !.sourceEmail = source, !.targetEmail = target,
                              !.userEmail = source, !.googleAuth = 1,
                              !.before = tokenStore[source]]

CallAuthenticateAccounts(source, target) ==
    /\ auth.pc = "idle"
    /\ BeginAuthenticateAccounts(source, target)
    /\ UNCHANGED <<serviceVars, tokenStore>>

\* authenticate: the awaited loadTokens comes back; on success the client
\* takes the saved tokens and the validity test is sent, on failure the
\* catch starts performNewAuthentication, which shows the URL, reads the
\* code and sends it for exchange
LoadTokens ==
    /\ auth.pc = "loadTokens"
    /\ \E answered \in BOOLEAN :
        IF LoadSucceeds(tokenStore, auth.userEmail, answered)
        THEN /\ clients' = SetCredentials(clients, auth.googleAuth,
                                          tokenStore[auth.userEmail])
             /\ auth' = [auth EXCEPT !.loaded = TRUE,
                                     !.pc = "testTokenValidity"]
        ELSE /\ auth' = [auth EXCEPT !.interactive = TRUE,
                                     !.pc = "getTokens"]
             /\ UNCHANGED clients
    /\ UNCHANGED <<serviceVars, tokenStore>>

\* authenticate: the awaited testTokenValidity comes back; on success the
\* client is returned, on failure the catch starts performNewAuthentication
TestTokenValidity ==
    /\ auth.pc = "testTokenValidity"
    /\ \E answered \in BOOLEAN :
        IF TokensAccepted(clients, auth.googleAuth, answered)
        THEN auth' = AuthenticateEnds([auth EXCEPT !.tested = TRUE], TRUE,
                                      tokenStore)
        ELSE auth' = [auth EXCEPT !.interactive = TRUE, !.pc = "getTokens"]
    /\ UNCHANGED <<serviceVars, tokenStore, clients>>

\* performNewAuthentication: the awaited getTokens(code) comes back; the
\* account asked to consent is the one that grants. On success the client
\* takes the fresh tokens and saveTokens is sent, on failure the catch throws
GetTokens ==
    /\ auth.pc = "getTokens"
    /\ \E answered \in BOOLEAN :
        IF answered
        THEN /\ clients' = SetCredentials(clients, auth.googleAuth,
                                          Tokens(auth.userEmail, TRUE))
             /\ auth' = [auth EXCEPT !.tokens = Tokens(auth.userEmail, TRUE),
                                     !.pc = "saveTokens"]
        ELSE /\ auth' = AuthenticateEnds(auth, FALSE, tokenStore)
             /\ UNCHANGED clients
    /\ UNCHANGED <<serviceVars, tokenStore>>

\* performNewAuthentication: the awaited saveTokens comes back; on success
\* the file holds the fresh tokens and the client is returned, on failure
\* the catch throws
SaveTokens ==
    /\ auth.pc = "saveTokens"
    /\ \E answered \in BOOLEAN :
        IF answered
        THEN LET written == StoreAfterSave(tokenStore, auth.userEmail,
                                           auth.tokens) IN
             /\ tokenStore' = written
             /\ auth' = AuthenticateEnds(auth, TRUE, written)
        ELSE /\ auth' = AuthenticateEnds(auth, FALSE, tokenStore)
             /\ UNCHANGED tokenStore
    /\ UNCHANGED <<serviceVars, clients>>

NextAuth ==
    \/ \E source \in Accounts, target \in Accounts :
          CallAuthenticateAccounts(source, target)
    \/ LoadTokens
    \/ TestTokenValidity
    \/ GetTokens
    \/ SaveTokens

\* the token files a run may find: none, a live record, a stale record
InitAuth ==
    /\ drive \in [FileIds -> {MissingFile}]
    /\ external = 0
    /\ pc = "idle"
    /\ mode = "single"
    /\ fileId = "F1"
    /\ newOwnerEmail = TargetEmail
    /\ options = [transferOwnership |-> TRUE, continueOnError |-> TRUE]
    /\ fileDetails = NoDetails
    /\ existingPermission = NoPermission
    /\ userPermission = NoPermission
    /\ calls = <<>>
    /\ outcome = NoOutcome
    /\ fileIds = <<>>
    /\ i = 0
    /\ results = <<>>
    /\ delays = <<>>
    /\ batchReturn = NoBatchReturn
    /\ previous = NoPrevious
    /\ repeated = FALSE
    /\ interference = FALSE
    /\ validation = NoValidation
    /\ tokenStore \in {store \in [Accounts -> SavedTokens(OwnerEmail)
                                           \cup SavedTokens(TargetEmail)] :
                          \A a \in Accounts : store[a] \in SavedTokens(a)}
    /\ clients = <<>>
    /\ auth = NoAuth
    /\ app = NoApp

SpecAuth == InitAuth /\ [][NextAuth]_vars

\* ----------------------------------------------------- ValidationUtils
MaxEmailLen == 254
MaxLabelLen == 63
MinFileIdLen == 28
MaxFileIdLen == 44
MaxInputLen == 500

\* [a-zA-Z0-9]
AlphaNumeric ==
    {"a", "b", "c", "d", "e", "f", "g", "h", "i", "j", "k", "l", "m",
     "n", "o", "p", "q", "r", "s", "t", "u", "v", "w", "x", "y", "z",
     "A", "B", "C", "D", "E", "F", "G", "H", "I", "J", "K", "L", "M",
     "N", "O", "P", "Q", "R", "S", "T", "U", "V", "W", "X", "Y", "Z",
     "0", "1", "2", "3", "4", "5", "6", "7", "8", "9"}

\* the characters the pattern allows before the "@" (the backquote, which
\* it allows too, has no string form here and is in none of the inputs)
LocalChars ==
    AlphaNumeric \cup {".", "!", "#", "$", "%", "&", "'", "*", "+", "/",
                       "=", "?", "^", "_", "{", "|", "}", "~", "-"}

\* the part after the "@": labels separated by dots, each beginning and
\* ending with a letter or digit, hyphens allowed inside, at most
\* MaxLabelLen characters long
DomainMatches(d) ==
    /\ Len(d) >= 1
    /\ d[1] \in AlphaNumeric
    /\ d[Len(d)] \in AlphaNumeric
    /\ \A k \in 1..Len(d) : d[k] \in AlphaNumeric \cup {"-", "."}
    /\ \A k \in 1..Len(d) :
          d[k] = "." => (d[k - 1] \in AlphaNumeric /\ d[k + 1] \in AlphaNumeric)
    /\ \A j \in 1..Len(d) :
          j + MaxLabelLen <= Len(d) =>
              \E k \in j..(j + MaxLabelLen) : d[k] = "."

\* ValidationUtils.isValidEmail
ValidationUtils_isValidEmail(email) ==
    /\ email # <<>>
    /\ \E at \in 1..Len(email) :
          /\ email[at] = "@"
          /\ at > 1
          /\ \A k \in 1..(at - 1) : email[k] \in LocalChars
          /\ DomainMatches(SubSeq(email, at + 1, Len(email)))
    /\ Len(email) <= MaxEmailLen

isValidFileId(id) ==
    /\ id # <<>>
    /\ Len(id) >= MinFileIdLen
    /\ Len(id) <= MaxFileIdLen
    /\ \A k \in 1..Len(id) : id[k] \in AlphaNumeric \cup {"_", "-"}

validateFileIds(ids) ==
    LET invalidIds == SelectSeq(ids, LAMBDA id : ~isValidFileId(id)) IN
    IF ids = <<>>
    THEN [valid |-> FALSE,
          error |-> <<"At least one file ID must be provided">>]
    ELSE IF invalidIds # <<>>
    THEN [valid |-> FALSE, error |-> <<"Invalid file IDs found", invalidIds>>]
    ELSE [valid |-> TRUE, error |-> <<>>]

\* mutant: the test that the two accounts differ is left out
validateTransferParams_SameAllowed(sourceEmail, targetEmail, ids) ==
    LET errors ==
            (IF ValidationUtils_isValidEmail(sourceEmail) THEN <<>>
             ELSE <<"Invalid source email address">>)
         \o (IF ValidationUtils_isValidEmail(targetEmail) THEN <<>>
             ELSE <<"Invalid target email address">>)
         \o (IF validateFileIds(ids).valid THEN <<>>
             ELSE <<validateFileIds(ids).error>>)
    IN [valid |-> errors = <<>>, errors |-> errors]

validateTransferParams(sourceEmail, targetEmail, ids) ==
    LET errors ==
            (IF ValidationUtils_isValidEmail(sourceEmail) THEN <<>>
             ELSE <<"Invalid source email address">>)
         \o (IF ValidationUtils_isValidEmail(targetEmail) THEN <<>>
             ELSE <<"Invalid target email address">>)
         \o (IF sourceEmail = targetEmail
             THEN <<"Source and target email addresses cannot be the same">>
             ELSE <<>>)
         \o (IF validateFileIds(ids).valid THEN <<>>
             ELSE <<validateFileIds(ids).error>>)
    IN [valid |-> errors = <<>>, errors |-> errors]

\* String.prototype.trim on the blanks of the model's alphabet
Trim(input) ==
    LET kept == {k \in 1..Len(input) : input[k] # " "} IN
    IF kept = {} THEN <<>>
    ELSE SubSeq(input,
                CHOOSE k \in kept : \A m \in kept : k <= m,
                CHOOSE k \in kept : \A m \in kept : m <= k)

\* trim, then drop < > " ', then cut at MaxInputLen characters
sanitizeInput(input) ==
    LET cleaned == SelectSeq(Trim(input),
                             LAMBDA c : c \notin {"<", ">", "\"", "'"})
    IN IF Len(cleaned) <= MaxInputLen THEN cleaned
       ELSE SubSeq(cleaned, 1, MaxInputLen)

\* ------------------------------------------- handleSingleFileTransfer
DotlessEmail == <<"b", "@", "x">>

\* what the user may type at an e-mail prompt
TypedEmails ==
    { OwnerEmail,
      <<" ">> \o TargetEmail \o <<" ">>,
      DotlessEmail,
      NotAnEmail,
      <<"b", "@", "-", "x">>,
      <<"<", " ">> \o OwnerEmail }

IdOfLength(n) == [k \in 1..n |-> "a"]

\* what the user may type at the file id prompt
TypedFileIds ==
    { IdOfLength(MinFileIdLen),
      IdOfLength(MinFileIdLen - 1),
      IdOfLength(MaxFileIdLen + 1),
      <<".">> \o IdOfLength(MinFileIdLen - 1) }

\* handleSingleFileTransfer is called: the three prompts are answered, the
\* inputs sanitized and validated; a rejected input ends the flow, an
\* accepted one starts authenticateAccounts, which runs to its first await
HandleSingleFileTransfer(typedSource, typedTarget, typedFile) ==
    /\ app.pc = "idle"
    /\ auth.pc = "idle"
    /\ LET sourceEmail == sanitizeInput(typedSource)
           targetEmail == sanitizeInput(typedTarget)
           file == sanitizeInput(typedFile)
           checked == validateTransferParams(sourceEmail, targetEmail,
                                             <<file>>)
           started == [NoApp EXCEPT
                         !.sourceEmail = sourceEmail,
                         !.targetEmail = targetEmail,
                         !.fileId = file,
                         !.typed = <<typedSource, typedTarget, typedFile>>,
                         !.errors = checked.errors,
                         !.stages = <<"validateTransferParams">>]
       IN
       IF ~checked.valid
       THEN /\ app' = [started EXCEPT !.ended = "rejected"]
            /\ auth' = NoAuth
            /\ clients' = <<>>
       ELSE /\ app' = [started EXCEPT
                         !.pc = "authenticateAccounts",
                         !.stages = Append(started.stages,
                                           "authenticateAccounts")]
            /\ BeginAuthenticateAccounts(sourceEmail, targetEmail)
    /\ UNCHANGED <<coreVars, tokenStore>>

\* the awaited authenticateAccounts has settled. Rejected, its error lands
\* in the catch. Fulfilled, the next statement is new TransferService(...):
\* app.js takes TransferService as a property of what transferService.js
\* exports, the export is the class itself, the name is undefined and the
\* new throws a TypeError into the same catch. Either way the flow ends
\* here, before validateTransferPreconditions, the confirmation prompt and
\* transferFileOwnership.
AfterAuthenticateAccounts ==
    /\ app.pc = "authenticateAccounts"
    /\ auth.pc = "idle"
    /\ app' = [app EXCEPT
                 !.pc = "idle",
                 !.ended = "failed",
                 !.error = IF auth.result = "thrown"
                           THEN <<"Authentication failed">>
                           ELSE <<"TransferService is not a constructor">>]
    /\ UNCHANGED <<coreVars, tokenStore, clients, auth>>

NextApp ==
    \/ \E typedSource \in TypedEmails, typedTarget \in TypedEmails,
          typedFile \in TypedFileIds :
          HandleSingleFileTransfer(typedSource, typedTarget, typedFile)
    \/ LoadTokens
    \/ TestTokenValidity
    \/ GetTokens
    \/ SaveTokens
    \/ AfterAuthenticateAccounts

\* the accounts whose token file a run may find
InitApp ==
    /\ drive \in [FileIds -> {[exists |-> TRUE,
                                permissions |-> <<Perm(1, "owner", OwnerEmail)>>]}]
    /\ external = 0
    /\ pc = "idle"
    /\ mode = "single"
    /\ fileId = "F1"
    /\ newOwnerEmail = TargetEmail
    /\ options = [transferOwnership |-> TRUE, continueOnError |-> TRUE]
    /\ fileDetails = NoDetails
    /\ existingPermission = NoPermission
    /\ userPermission = NoPermission
    /\ calls = <<>>
    /\ outcome = NoOutcome
    /\ fileIds = <<>>
    /\ i = 0
    /\ results = <<>>
    /\ delays = <<>>
    /\ batchReturn = NoBatchReturn
    /\ previous = NoPrevious
    /\ repeated = FALSE
    /\ interference = FALSE
    /\ validation = NoValidation
    /\ tokenStore \in {store \in [Accounts \cup {DotlessEmail} ->
                                     {NoTokens} \cup
                                     {Tokens(a, TRUE) :
                                        a \in Accounts \cup {DotlessEmail}}] :
                          \A a \in Accounts \cup {DotlessEmail} :
                              store[a] \in {NoTokens, Tokens(a, TRUE)}}
    /\ clients = <<>>
    /\ auth = NoAuth
    /\ app = NoApp

SpecApp == InitApp /\ [][NextApp]_vars


\* ------------------------------------------------- reading the call log
WriteOps == {"permissions.create", "permissions.update"}

WriteCalls == {k \in 1..Len(calls) : calls[k].op \in WriteOps}

CreateCalls == {k \in 1..Len(calls) : calls[k].op = "permissions.create"}

AllCallsSucceeded == \A k \in 1..Len(calls) : calls[k].ok

\* the operations of the log with the roles they ask for
Issued == [k \in 1..Len(calls) |-> <<calls[k].op, calls[k].role>>]

\* a direct call has run to its end
Finished == mode = "single" /\ pc = "idle" /\ outcome # NoOutcome

Succeeded == ~outcome.thrown /\ outcome.value.success

\* step 2 of a direct call got its permission list
ListFetched ==
    /\ mode = "single"
    /\ Len(calls) >= 2
    /\ calls[2].op = "permissions.list"
    /\ calls[2].ok

HasEntry(permissions, email) ==
    \E k \in 1..Len(permissions) : permissions[k].emailAddress = email

HoldsRole(permissions, email, role) ==
    \E k \in 1..Len(permissions) :
        permissions[k].emailAddress = email /\ permissions[k].role = role

\* ------------------------------------------------------------------ claims

\* C1: a direct call that repeats a successful call with the same arguments,
\* nobody having changed the file in between, issues no permissions.create
\* and no permissions.update, and returns success once Drive has answered
\* its two lookups.
C1_Idempotent ==
    (mode = "single" /\ repeated) =>
        /\ WriteCalls = {}
        /\ (Finished /\ AllCallsSucceeded) => Succeeded

C1_Witness ==
    /\ Finished
    /\ repeated
    /\ Succeeded
    /\ Issued = << <<"files.get", "">>, <<"permissions.list", "">> >>

\* C2: whenever the list fetched in step 2 holds an owner permission for the
\* target e-mail, the call returns 'Already owner' at once, with no write.
C2_OwnerShortCircuits ==
    (ListFetched /\ HoldsRole(calls[2].listed, newOwnerEmail, "owner")) =>
        /\ Finished
        /\ Succeeded
        /\ outcome.value.message = "Already owner"
        /\ Len(calls) = 2

\* C3: on a file that exists, with no permission for the target, every Drive
\* call succeeding and nobody else changing the file, a transfer issues
\* files.get, permissions.list, one create(writer), permissions.list and one
\* update(owner), in this order, and returns success with newOwner = target.
C3_FreshTransfer ==
    ( /\ Finished
      /\ AllCallsSucceeded
      /\ ~interference
      /\ options.transferOwnership
      /\ ListFetched
      /\ ~HasEntry(calls[2].listed, newOwnerEmail) ) =>
        /\ Issued = << <<"files.get", "">>,
                       <<"permissions.list", "">>,
                       <<"permissions.create", "writer">>,
                       <<"permissions.list", "">>,
                       <<"permissions.update", "owner">> >>
        /\ Succeeded
        /\ outcome.value.newOwner = newOwnerEmail

C3_Witness ==
    /\ Finished
    /\ AllCallsSucceeded
    /\ ~interference
    /\ Succeeded
    /\ Len(calls) = 5
    /\ calls[3].op = "permissions.create"
    /\ HoldsRole(drive[fileId].permissions, newOwnerEmail, "owner")

\* C4: a direct call issues permissions.create (role writer) if and only if
\* the list fetched in step 2 has no entry for the target e-mail; with an
\* entry there, the call after the list is never a create: it is the lookup
\* of the promotion.
C4_WriterBootstrapConditional ==
    mode = "single" =>
        /\ CreateCalls # {} =>
              /\ ListFetched
              /\ ~HasEntry(calls[2].listed, newOwnerEmail)
              /\ CreateCalls = {3}
              /\ calls[3].role = "writer"
        /\ (ListFetched /\ ~HasEntry(calls[2].listed, newOwnerEmail)) =>
              (CreateCalls # {} \/ pc = "addPermission")
        /\ (ListFetched /\ HasEntry(calls[2].listed, newOwnerEmail)
                        /\ Len(calls) >= 3) =>
              calls[3].op = "permissions.list"

C4_Witness ==
    /\ Finished
    /\ Succeeded
    /\ ListFetched
    /\ HoldsRole(calls[2].listed, newOwnerEmail, "reader")
    /\ Issued = << <<"files.get", "">>,
                   <<"permissions.list", "">>,
                   <<"permissions.list", "">>,
                   <<"permissions.update", "owner">> >>

\* C5: a direct call with a target e-mail that fails the syntactic check
\* issues no Drive call at all.
C5_InvalidEmailNoDriveCall ==
    (mode = "single" /\ ~isValidEmail(newOwnerEmail)) => calls = <<>>

\* C6 (its 'only if' half): a direct call that returns success leaves the
\* target e-mail with role owner on the file, whatever the options.
C6_SuccessMeansOwner ==
    (Finished /\ Succeeded) =>
        HoldsRole(drive[fileId].permissions, newOwnerEmail, "owner")


\* a call of batchTransferOwnership has returned
BatchReturned == mode = "batch" /\ pc = "idle" /\ batchReturn.returned

\* positions of the failed outcomes recorded so far
FailedAt == {k \in 1..Len(results) : ~results[k].success}

FirstFailure == CHOOSE k \in FailedAt : \A j \in FailedAt : k <= j

\* C7: with continueOnError = true the returned summary has
\* successful + failed = length of the input, and results holds one outcome
\* per input position, for the file id at that position.
C7_BatchAccounting ==
    (BatchReturned /\ options.continueOnError) =>
        /\ batchReturn.summary.successful + batchReturn.summary.failed
              = Len(fileIds)
        /\ Len(batchReturn.results) = Len(fileIds)
        /\ \A k \in 1..Len(fileIds) :
              batchReturn.results[k].fileId = fileIds[k]

C7_Witness ==
    /\ BatchReturned
    /\ options.continueOnError
    /\ Len(fileIds) = 2
    /\ ~batchReturn.results[1].success
    /\ batchReturn.results[2].success

\* C8: with continueOnError = false the batch stops at the first failed
\* transfer: its failed outcome is the last one recorded, the batch has
\* returned, and no Drive call was issued for a later position.
C8_HaltOnFirstFailure ==
    (mode = "batch" /\ ~options.continueOnError /\ FailedAt # {}) =>
        /\ Len(results) = FirstFailure
        /\ results[FirstFailure].fileId = fileIds[FirstFailure]
        /\ BatchReturned
        /\ batchReturn.results = results
        /\ \A k \in 1..Len(calls) : calls[k].index <= FirstFailure

C8_Witness ==
    /\ BatchReturned
    /\ ~options.continueOnError
    /\ Len(fileIds) = 2
    /\ Len(batchReturn.results) = 1
    /\ ~batchReturn.results[1].success
    /\ drive[fileIds[2]].exists

\* C9: the k-th outcome is the outcome of the k-th input file id, success or
\* failure, and the Drive calls are issued position after position in input
\* order.
C9_OrderPreserved ==
    mode = "batch" =>
        /\ Len(results) <= Len(fileIds)
        /\ \A k \in 1..Len(results) : results[k].fileId = fileIds[k]
        /\ \A k \in 1..Len(calls) :
              /\ calls[k].index \in 1..Len(fileIds)
              /\ calls[k].fileId = fileIds[calls[k].index]
              /\ calls[k].index <= Len(results) + 1
        /\ \A j, k \in 1..Len(calls) :
              j < k => calls[j].index <= calls[k].index

C9_Witness ==
    /\ BatchReturned
    /\ Len(batchReturn.results) = 2
    /\ fileIds = <<"F2", "F1">>
    /\ ~batchReturn.results[1].success
    /\ batchReturn.results[2].success
    /\ batchReturn.results[2].fileId = "F1"

\* C10: summary.total is the length of the input, also after an early halt;
\* successful and failed count the recorded outcomes only, so
\* successful + failed = length(results) <= total.
C10_SummaryTotals ==
    BatchReturned =>
        /\ batchReturn.summary.total = Len(fileIds)
        /\ batchReturn.summary.successful
              = Cardinality({k \in 1..Len(batchReturn.results) :
                                batchReturn.results[k].success})
        /\ batchReturn.summary.failed
              = Cardinality({k \in 1..Len(batchReturn.results) :
                                ~batchReturn.results[k].success})
        /\ batchReturn.summary.successful + batchReturn.summary.failed
              = Len(batchReturn.results)
        /\ Len(batchReturn.results) <= batchReturn.summary.total

C10_Witness ==
    /\ BatchReturned
    /\ Len(batchReturn.results) < batchReturn.summary.total
    /\ batchReturn.summary.successful + batchReturn.summary.failed = 1
    /\ batchReturn.summary.total = 2


\* loop positions after which the batch paused
Delayed == {delays[k] : k \in 1..Len(delays)}

\* C11: after every processed element that is not the last one, whether its
\* transfer succeeded or failed, the batch pauses before it starts the next
\* element; it does not pause after the last one.
C11_DelayBetweenProcessed ==
    mode = "batch" =>
        /\ \A k \in 1..(i - 1) : k \in Delayed
        /\ Len(fileIds) \notin Delayed

\* the permission lists promoteToOwner asked for in a direct call
PromotionLists ==
    {k \in 3..Len(calls) : calls[k].op = "permissions.list"}

UpdateCalls == {k \in 1..Len(calls) : calls[k].op = "permissions.update"}

\* C14: promoteToOwner asks Drive for the list again (the entry created in
\* step 3 is in it), and when that list holds no entry for the target the
\* transfer ends there with a promotion failure and no permissions.update.
C14_PromotionFailsClosed ==
    mode = "single" =>
        \A k \in PromotionLists :
            /\ (calls[k].ok /\ ~HasEntry(calls[k].listed, newOwnerEmail)) =>
                  /\ k = Len(calls)
                  /\ Finished
                  /\ outcome.thrown
                  /\ outcome.error[1] = "Transfer failed"
                  /\ outcome.error[2] = "Failed to promote to owner"
                  /\ UpdateCalls = {}
            /\ (k = 4 /\ calls[k].ok /\ ~interference) =>
                  /\ calls[3].op = "permissions.create"
                  /\ HasEntry(calls[k].listed, newOwnerEmail)
                  /\ ~HasEntry(calls[2].listed, newOwnerEmail)

C14_Witness ==
    /\ Finished
    /\ outcome.thrown
    /\ interference
    /\ Len(calls) = 4
    /\ calls[3].op = "permissions.create"
    /\ calls[3].ok
    /\ calls[4].ok
    /\ ~HasEntry(calls[4].listed, newOwnerEmail)

CallsOf(op) == {k \in 1..Len(calls) : calls[k].op = op}

\* C15: a direct call issues at most one files.get, one permissions.create,
\* one permissions.update and two permissions.list; only its last call can
\* have failed, and a failed call ends the transfer with a thrown error.
C15_NoInternalRetries ==
    mode = "single" =>
        /\ Cardinality(CallsOf("files.get")) <= 1
        /\ Cardinality(CallsOf("permissions.create")) <= 1
        /\ Cardinality(CallsOf("permissions.update")) <= 1
        /\ Cardinality(CallsOf("permissions.list")) <= 2
        /\ \A k \in 1..(Len(calls) - 1) : calls[k].ok
        /\ (calls # <<>> /\ ~calls[Len(calls)].ok) =>
              /\ Finished
              /\ outcome.thrown
              /\ outcome.error[1] = "Transfer failed"

C15_Witness ==
    /\ Finished
    /\ outcome.thrown
    /\ Len(calls) = 3
    /\ calls[3].op = "permissions.create"
    /\ ~calls[3].ok

\* C16: when the writer permission was created and the promotion then
\* failed, the transfer reports failure, issues nothing after the create but
\* the promotion's own list and update, and the target is left as writer,
\* not owner (nobody else touching the file).
C16_NoRollback ==
    ( /\ Finished
      /\ Len(calls) >= 3
      /\ calls[3].op = "permissions.create"
      /\ calls[3].ok
      /\ options.transferOwnership
      /\ ~Succeeded
      /\ ~interference ) =>
        /\ outcome.thrown
        /\ \A k \in 4..Len(calls) :
              calls[k].op \in {"permissions.list", "permissions.update"}
        /\ ~calls[Len(calls)].ok
        /\ HoldsRole(drive[fileId].permissions, newOwnerEmail, "writer")
        /\ ~HoldsRole(drive[fileId].permissions, newOwnerEmail, "owner")

C16_Witness ==
    /\ Finished
    /\ outcome.thrown
    /\ ~interference
    /\ Len(calls) = 5
    /\ calls[3].op = "permissions.create"
    /\ calls[5].op = "permissions.update"
    /\ ~calls[5].ok
    /\ HoldsRole(drive[fileId].permissions, newOwnerEmail, "writer")

\* the cause messages of failed Drive calls
DriveCauses == {"Drive unavailable", "File not found", "Permission not found"}

FailedCallsAt(k) == {c \in 1..Len(calls) : calls[c].index = k /\ ~calls[c].ok}

\* C17: every failed outcome of a batch has success false, the file id of
\* its position, and an error text that wraps the cause message of the Drive
\* call that failed ('File not found' only for a file Drive does not have).
C17_FailureCarriesCause ==
    mode = "batch" =>
        \A k \in FailedAt :
            LET e == results[k].error IN
            /\ ~results[k].success
            /\ results[k].fileId = fileIds[k]
            /\ FailedCallsAt(k) # {}
            /\ Len(e) >= 3
            /\ e[1] = "Transfer failed"
            /\ e[Len(e)] \in DriveCauses
            /\ e[Len(e)] = "File not found" => ~drive[fileIds[k]].exists
            /\ e[Len(e)] = "Permission not found" => drive[fileIds[k]].exists

C17_Witness ==
    /\ BatchReturned
    /\ Len(results) = 2
    /\ ~results[1].success
    /\ results[1].error = <<"Transfer failed", "Failed to get file details",
                            "File not found">>
    /\ ~results[2].success
    /\ results[2].error = <<"Transfer failed", "Failed to promote to owner",
                            "Failed to get permissions", "Drive unavailable">>

\* a transfer of the batch is under way
InFlight == mode = "batch" /\ pc \notin {"idle", "delay"}

\* C18: at most one transfer is in flight, the one of the position after the
\* outcomes recorded so far; a Drive call for position j + 1 is issued only
\* once position j has its outcome and the pause after it, if the loop takes
\* one there, is over.
C18_Sequential ==
    mode = "batch" =>
        /\ InFlight => i = Len(results) + 1
        /\ pc = "delay" => (i = Len(results) /\ i \notin Delayed)
        /\ \A c \in 1..Len(calls) :
              /\ calls[c].index <= Len(results) + 1
              /\ calls[c].index >= 2 =>
                    /\ Len(results) >= calls[c].index - 1
                    /\ results[calls[c].index - 1].success =>
                          (calls[c].index - 1) \in Delayed

C18_Witness ==
    /\ InFlight
    /\ i = 2
    /\ delays = <<1>>
    /\ results[1].success
    /\ \E c \in 1..Len(calls) : calls[c].index = 2

\* C20: a batch under way always comes to return {results, summary}, and
\* never ends in any other way: a failed transfer does not escape the loop.
C20_BatchCompletes ==
    /\ [](mode = "batch" /\ pc = "idle" => batchReturn.returned)
    /\ (mode = "batch" /\ pc # "idle") ~> BatchReturned

C20_Witness ==
    /\ BatchReturned
    /\ ~options.continueOnError
    /\ Len(fileIds) = 2
    /\ Len(batchReturn.results) = 1
    /\ batchReturn.summary.failed = 1
    /\ outcome.thrown


\* ---------------------------------------------------------------- C13
\* the addresses of ValidateEmails that match /^[^\s@]+@[^\s@]+\.[^\s@]+$/,
\* listed by hand
WellFormedEmails == {TargetEmail, <<"b", "@", "x", ".", "y", ".", "c">>}

\* C13: validateTransferPreconditions is read-only and total. It issues no
\* permissions.create and no permissions.update (its one Drive call is
\* files.get), it never throws (it always comes back with a returned value),
\* it returns valid:false with an error when the file cannot be fetched,
\* when the file has no owners, or when the address is not well formed, and
\* otherwise valid:true with the e-mail of owners[0] and the file name.
C13_ValidateReadOnlyTotal ==
    mode = "validate" =>
        /\ WriteCalls = {}
        /\ ~outcome.thrown
        /\ (pc = "idle") = validation.returned
        /\ validation.returned =>
            LET owners == Owners(drive[fileId])
                rejected == \/ ~calls[1].ok
                            \/ owners = <<>>
                            \/ newOwnerEmail \notin WellFormedEmails
            IN
            /\ Len(calls) = 1
            /\ calls[1].op = "files.get"
            /\ rejected => (~validation.valid /\ validation.error # <<>>)
            /\ ~rejected =>
                /\ validation.valid
                /\ validation.currentOwner = owners[1].emailAddress
                /\ validation.fileName = FileName(fileId)

\* a fetched file with an owner and an address with "@" but no dot is turned down
C13_Witness ==
    /\ mode = "validate"
    /\ validation.returned
    /\ calls[1].ok
    /\ Owners(drive[fileId]) # <<>>
    /\ newOwnerEmail = <<"b", "@", "x">>
    /\ ~validation.valid


\* ---------------------------------------------------------------- C12
\* C12: authenticated-client handles are not shared across accounts. After
\* authenticateAccounts(sourceEmail, targetEmail) has returned for two
\* different accounts, sourceAuth and targetAuth are distinct handles and
\* the client behind sourceAuth still carries the source account's
\* credentials.
C12_HandlesNotShared ==
    (auth.result = "returned" /\ auth.sourceEmail # auth.targetEmail) =>
        /\ auth.sourceAuth # auth.targetAuth
        /\ clients[auth.sourceAuth].account = auth.sourceEmail

\* ---------------------------------------------------------------- C19
\* C19: token persistence on authentication. An authenticate(email) that
\* found a saved record which passed the validity test returned the client
\* without the interactive flow; one that found no record, a stale record,
\* or could not use the record ran the interactive flow; and whenever an
\* authenticate that ran the interactive flow returned a client, the token
\* file of that e-mail holds the record the flow obtained.
C19_TokenPersistence ==
    \A k \in 1..Len(auth.flows) :
        LET flow == auth.flows[k] IN
        /\ (flow.loaded /\ flow.tested) =>
              (~flow.interactive /\ flow.returned /\ flow.before.live
               /\ flow.stored = flow.before)
        /\ (flow.before = NoTokens \/ ~flow.before.live) => flow.interactive
        /\ ~(flow.loaded /\ flow.tested) => flow.interactive
        /\ (flow.interactive /\ flow.returned) =>
              flow.stored = Tokens(flow.userEmail, TRUE)

\* the source account had no token file, went through the interactive flow
\* and got its client; the target account was served from its saved record
C19_Witness ==
    /\ auth.result = "returned"
    /\ auth.flows[1].before = NoTokens
    /\ auth.flows[1].interactive
    /\ auth.flows[1].returned
    /\ tokenStore[auth.sourceEmail] = Tokens(auth.sourceEmail, TRUE)
    /\ auth.flows[2].loaded /\ auth.flows[2].tested
    /\ ~auth.flows[2].interactive


\* ---------------------------------------------------------------- C21
\* the typed inputs validateTransferParams has to accept, listed by hand:
\* well-formed e-mails after sanitizing, and a 28-character file id
AcceptableEmails ==
    {OwnerEmail, <<" ">> \o TargetEmail \o <<" ">>, DotlessEmail}

AcceptableTyped ==
    {<<s, t, IdOfLength(28)>> : s \in AcceptableEmails,
                                t \in AcceptableEmails} \
    {<<s, s, IdOfLength(28)>> : s \in AcceptableEmails}

\* the steps of the single-file flow in the order the claim gives them
FlowOrder ==
    <<"validateTransferParams", "authenticateAccounts",
      "validateTransferPreconditions", "confirmation",
      "transferFileOwnership">>

=============================================================================
